---- MODULE Spec2Model ----
(***************************************************************************)
(* Bane Emote Board (src/bane-emote-board.py): the search session / scroll *)
(* driver of class App with its SearchWorker threads, the source adapters, *)
(* the ImageCards with their download workers and the purge of the cache   *)
(* at shutdown, and the favourites kept in favorites.json.                 *)
(*                                                                         *)
(* Every Qt slot runs to completion on the UI thread, so each handler is   *)
(* one action.  SearchWorker threads run in the background; the arrival of *)
(* a worker's results_ready signal on the UI thread is an action of its    *)
(* own (display_results).                                                  *)
(***************************************************************************)
EXTENDS Integers, Sequences, FiniteSets, TLC

\* ------------------------------------------------------------------ bounds
MaxWorkers == 2     \* SearchWorker threads in flight at once
MaxCards == 2       \* widgets in search_card_widgets
MaxTimers == 2      \* pending QTimer.singleShot(50, fill_screen_if_needed)
MaxPos == 2         \* largest page number / offset a backend hands out

\* ------------------------------------------------------- values and cursors
\* Characters are numbers: 1..26 lower case, 101..126 upper case, 0 a space;
\* larger numbers are code points of pictographs.
Sources == {"Tenor", "7TV", "Emojis", "Local Images"}
Queries == {<<>>, <<1>>}
\* What the user searches for: every source, and one of them with two queries.
SearchInputs == {in \in Sources \X Queries : in[1] = "Tenor" \/ in[2] = <<1>>}

\* A cursor value (next_ptr, SearchWorker.pos).  kind/s/n are the Python
\* value (None, a str or an int); by/q are history only: the adapter that
\* returned the value and the query it returned it for.  No operation of the
\* program reads by or q.
None == [kind |-> "none", s |-> "", n |-> 0, by |-> "", q |-> <<>>]
StrCursor(t, src, query) == [kind |-> "str", s |-> t, n |-> 0, by |-> src, q |-> query]
IntCursor(k, src, query) == [kind |-> "int", s |-> "", n |-> k, by |-> src, q |-> query]

\* Python truth value of a cursor: `if pos`, `if self.next_ptr`.
Truthy(c) ==
    /\ c.kind /= "none"
    /\ c.kind = "str" => c.s /= ""
    /\ c.kind = "int" => c.n /= 0

\* Result items (the dicts the adapters build).
Item(nm, u, ty, src) == [name |-> nm, url |-> u, type |-> ty, source |-> src]
\* The items a backend lists, in its order.
ItemsOf(src) ==
    CASE src = "Tenor" -> <<Item("GIF", "https://t/1.gif", "gif", "Tenor"),
                            Item("GIF", "https://t/2.gif", "gif", "Tenor")>>
      [] src = "7TV" -> <<Item("Emote", "https://s/1/2x.webp", "webp", "7TV")>>
      [] src = "Emojis" -> <<Item("Star", "E1", "emoji", "Emoji")>>
      [] OTHER -> <<Item("a.png", "/local_images/a.png", "local", "Local")>>

\* The QLabel("No results found.") display_results puts into
\* search_card_widgets.
NoResultsLabel == Item("No results found.", "", "label", "")

\* The pages a search of src can return: none, or the first items it lists.
Pages(src) == {SubSeq(ItemsOf(src), 1, k) : k \in 0..Len(ItemsOf(src))}

\* The window sizes: the number of cards the viewport shows without scrolling.
Viewports == {1, 2}

\* ---------------------------------------------------------------- state
VARIABLES
    running,              \* the process is alive
    tab,                  \* tabs.currentIndex()
    is_loading,           \* App.is_loading
    next_ptr,             \* App.next_ptr
    current_query,        \* App.current_query
    current_source_name,  \* App.current_source_name
    search_card_widgets,  \* App.search_card_widgets
    workers,              \* started SearchWorker threads that have not ended
    fill_timers,          \* pending singleShot(50, fill_screen_if_needed)
    resize_timer,         \* App.resize_timer is active
    viewport,             \* cards the viewport shows without scrolling
    bar_value,            \* res_area.verticalScrollBar().value()
    ev,                   \* history: the handler that ran last
    null_seen,            \* history: a page of this session came with None
    chain,                \* a caller threading one adapter's cursor forward
    call,                 \* one call of an adapter's search on a backend answer
    hash_seed,            \* the seed of str hashes of this process
    image_cards,          \* the ImageCards made for a page of items
    data_dir,             \* the tmp_ files in DATA_DIR
    window,               \* the main window: "shown", "closed", "exited"
    favs_file,            \* FAVS_FILE: what favorites.json holds
    fav_frames,           \* the toggle_fav calls that have read FAVS_FILE
    fav_ui                \* the favourites tab and the last favourites handler

session_vars == <<running, tab, is_loading, next_ptr, current_query,
                  current_source_name, search_card_widgets, workers,
                  fill_timers, resize_timer, viewport, bar_value, ev,
                  null_seen>>

card_vars == <<hash_seed, image_cards, data_dir, window>>

fav_vars == <<favs_file, fav_frames, fav_ui>>

vars == <<session_vars, chain, call, card_vars, fav_vars>>

\* res_area.verticalScrollBar().maximum(): the part of the grid that does not
\* fit the viewport, ten units a card.
BarMaximum(cards, vp) ==
    IF Len(cards) > vp THEN (Len(cards) - vp) * 10 ELSE 0

Min(a, b) == IF a < b THEN a ELSE b

\* No cursor chain is being followed.
NoChain == [query |-> <<>>, pos |-> None, pages |-> <<>>, done |-> TRUE]

\* No single call is being looked at.
NoCall == [fn |-> "", done |-> TRUE]

\* The queries of the cursor chains: the empty one, and strings of letters in
\* either case (a, b, c, d, A, B), of a pictograph of the catalog and of a code
\* point without a name.
MaxQueryLen == 1
QueryChars == {1, 2, 3, 4, 101, 102, 128512, 9731}
EmojiQueries == UNION {[1..k -> QueryChars] : k \in 0..MaxQueryLen}

\* The positions the user moves the scroll bar to: the top, the bottom, and
\* the positions next to nine tenths of the range.
ScrollStops(maximum) ==
    {v \in {0, (maximum * 9) \div 10 - 1, (maximum * 9) \div 10,
            (maximum * 9) \div 10 + 1, maximum} : 0 <= v /\ v <= maximum}

Event(op, fetched, stale) == [op |-> op, fetched |-> fetched, stale |-> stale]

RemoveAt(s, i) == [j \in 1..(Len(s) - 1) |-> IF j < i THEN s[j] ELSE s[j + 1]]

\* ------------------------------------------------------- source adapters
\* What DataSource.search(query, pos) can hand back to SearchWorker.run: a
\* page and the next cursor, or an exception that escapes search.
Page(results, next_pos) == [raised |-> FALSE, results |-> results, next_pos |-> next_pos]
Raised == [raised |-> TRUE, results |-> <<>>, next_pos |-> None]

TenorTokens == {"CAoQAA"}

\* TenorSource.search: pos goes into the request untouched, whatever it is.
\* next_pos is the backend's "next"; the page holds the results that carry a
\* rendition.  A non-200 answer or an exception in the request gives
\* ([], None); everything is caught.
TenorSearch(query, pos) ==
    {Page(r, c) : r \in Pages("Tenor"),
                  c \in {None} \cup {StrCursor(t, "Tenor", query) : t \in TenorTokens}}

\* SevenTVSource.search: page = pos if pos else 1.  A backend page with emote
\* records gives (results, page + 1), results holding the records that carry
\* a host url; a page without records, a non-200 answer or an exception gives
\* (results, None).  With a str for a page, page + 1 is a TypeError, caught.
\* The backend holds no records from page MaxPos on.
SevenTVSearch(query, pos) ==
    LET page == IF Truthy(pos) THEN pos.n ELSE 1
        more == IF pos.kind /= "str" /\ page < MaxPos
                THEN {Page(r, IntCursor(page + 1, "7TV", query)) : r \in Pages("7TV")}
                ELSE {}
    IN  more \cup {Page(r, None) : r \in Pages("7TV")}

\* EmojiSource.search and LocalSource.search as the session sees them:
\* offset = pos if pos else 0; an empty slice always comes with None, a
\* non-empty one with offset + len(sliced) or, at the end of the list, None.
\* A str offset makes the slice bounds a TypeError, which nothing catches;
\* nor does anything catch what os.listdir raises in LocalSource.search, or
\* `f in imports_map` on an imports.json that holds no dict.
\* The lists hold MaxPos entries at most.
OffsetSearch(src, query, pos) ==
    LET offset == IF Truthy(pos) THEN pos.n ELSE 0
        full == {r \in Pages(src) : r /= <<>>}
    IN  IF pos.kind = "str" THEN {Raised}
        ELSE (IF src = "Local Images" THEN {Raised} ELSE {})
             \cup {Page(<<>>, None)}
             \cup {Page(r, None) : r \in full}
             \cup {Page(r, IntCursor(offset + Len(r), src, query)) :
                      r \in {x \in full : offset + Len(x) <= MaxPos}}

\* self.sources[name].search(query, pos)
SourceSearch(src, query, pos) ==
    CASE src = "Tenor" -> TenorSearch(query, pos)
      [] src = "7TV" -> SevenTVSearch(query, pos)
      [] OTHER -> OffsetSearch(src, query, pos)

\* ------------------------------------- TenorSource on one backend answer
\* What requests.get does for a call: it raises, or it answers with a status
\* and a body that r.json() cannot decode or that holds "next" and "results".
MaxResults == 2

\* The shapes of a result of the body: its renditions, and its description.
\*   both      media_formats with tinygif and gif
\*   gif       media_formats with gif only
\*   neither   media_formats with no tinygif and no gif
\*   v1        media, a list whose first element has tinygif
\*   v1_empty  media, an empty list
\*   no_url    media_formats whose tinygif has no 'url' (KeyError)
TenorResults ==
    {[media |-> "both", desc |-> "cat"], [media |-> "gif", desc |-> ""],
     [media |-> "neither", desc |-> "cat"], [media |-> "v1", desc |-> ""],
     [media |-> "v1_empty", desc |-> ""], [media |-> "no_url", desc |-> "cat"]}

TenorAnswers ==
    [raises : BOOLEAN, status : {200, 500}, json : {"dict", "invalid"},
     next : TenorTokens \cup {""},
     results : UNION {[1..k -> TenorResults] : k \in 0..MaxResults}]

\* gif_url of the loop body; "" stands for None.
TenorGifUrl(result) ==
    CASE result.media = "both" -> "https://t/tiny.gif"
      [] result.media = "gif" -> "https://t/full.gif"
      [] result.media = "v1" -> "https://t/v1tiny.gif"
      [] OTHER -> ""

\* The loop over data['results'] when a result without a rendition ends it
\* like an exception.
RECURSIVE TenorLoopEndsAtGap(_, _, _)
TenorLoopEndsAtGap(results, i, acc) ==
    IF i > Len(results) THEN [results |-> acc, raised |-> FALSE]
    ELSE IF TenorGifUrl(results[i]) = "" THEN [results |-> acc, raised |-> TRUE]
    ELSE TenorLoopEndsAtGap(results, i + 1,
             Append(acc, Item(IF results[i].desc /= "" THEN results[i].desc
                              ELSE "GIF",
                              TenorGifUrl(results[i]), "gif", "Tenor")))

\* The loop over data['results'] from result i on: the list it has built when
\* it ends, and whether it ended by an exception.
RECURSIVE TenorLoop(_, _, _)
TenorLoop(results, i, acc) ==
    IF i > Len(results) THEN [results |-> acc, raised |-> FALSE]
    ELSE IF results[i].media = "no_url" THEN [results |-> acc, raised |-> TRUE]
    ELSE IF TenorGifUrl(results[i]) = "" THEN TenorLoop(results, i + 1, acc)
    ELSE TenorLoop(results, i + 1,
             Append(acc, Item(IF results[i].desc /= "" THEN results[i].desc
                              ELSE "GIF",
                              TenorGifUrl(results[i]), "gif", "Tenor")))

\* TenorSource.search(query, pos) when the backend gives answer.  The except
\* clause swallows every exception and the function returns the results and
\* next_pos it has by then.
TenorFetch(answer, query, pos) ==
    IF answer.raises \/ answer.status /= 200 \/ answer.json = "invalid"
    THEN Page(<<>>, None)
    ELSE Page(TenorLoop(answer.results, 1, <<>>).results,
              IF answer.next = "" THEN None
              ELSE StrCursor(answer.next, "Tenor", query))

\* ----------------------------------- SevenTVSource on one backend answer
\* The shapes of an emote record and of the answer of requests.post.
\*   relative  host.url starts with "//"
\*   absolute  host.url is a full url
\*   no_host   no host url: the record is skipped
\*   bad_host  host is null (AttributeError)
SevenTVRecords == {"relative", "absolute", "no_host", "bad_host"}

SevenTVAnswers ==
    [raises : BOOLEAN, status : {200, 500}, emotes : BOOLEAN,
     items : UNION {[1..k -> SevenTVRecords] : k \in 0..MaxResults}]

RECURSIVE SevenTVLoop(_, _, _)
SevenTVLoop(items, i, acc) ==
    IF i > Len(items) THEN [results |-> acc, raised |-> FALSE]
    ELSE IF items[i] = "bad_host" THEN [results |-> acc, raised |-> TRUE]
    ELSE IF items[i] = "no_host" THEN SevenTVLoop(items, i + 1, acc)
    ELSE SevenTVLoop(items, i + 1,
             Append(acc, Item("Emote",
                              IF items[i] = "relative"
                              THEN "https://cdn.7tv.app/e/2x.webp"
                              ELSE "https://s/1/2x.webp",
                              "webp", "7TV")))

\* SevenTVSource.search(query, pos) when the backend gives answer.  With a
\* str cursor page + 1 raises after the loop, inside the try.
SevenTVFetch(answer, query, pos) ==
    LET page == IF Truthy(pos) THEN pos.n ELSE 1
        loop == SevenTVLoop(answer.items, 1, <<>>)
    IN  IF answer.raises \/ answer.status /= 200 \/ ~answer.emotes
        THEN Page(<<>>, None)
        ELSE IF answer.items = <<>> THEN Page(<<>>, None)
        ELSE IF loop.raised \/ pos.kind = "str" THEN Page(loop.results, None)
        ELSE Page(loop.results, IntCursor(page + 1, "7TV", query))

\* ------------------------------------------------------------ EmojiSource
BATCH_SIZE == 50

Lower(c) == IF c \in 101..126 THEN c - 100 ELSE c
Upper(c) == IF c \in 1..26 THEN c + 100 ELSE c

\* str.lower() that leaves the string as it is.
lower_keeps_case(str) == str

\* str.lower()
lower(str) == [i \in 1..Len(str) |-> Lower(str[i])]

\* str.title(): the first letter of every word in upper case, the others in
\* lower case.
title(str) ==
    [i \in 1..Len(str) |->
        IF i = 1 \/ str[i - 1] \notin (1..26) \cup (101..126)
        THEN Upper(str[i]) ELSE Lower(str[i])]

\* sub in str
Contains(str, sub) ==
    \E k \in 0..(Len(str) - Len(sub)) : SubSeq(str, k + 1, k + Len(sub)) = sub

\* unicodedata.name(chr(code)): the Unicode database of the interpreter, which
\* is not part of the program.  Here every fourth code point has no name
\* (ValueError), and the names are words over A, B, C.
HasName(code) == code % 4 /= 3
UnicodeName(code) ==
    <<101 + (code % 3)>>
    \o (IF (code \div 3) % 2 = 0 THEN <<0>> ELSE <<>>)
    \o <<101 + ((code \div 6) % 3), 101 + ((code \div 18) % 3)>>

\* EmojiSource._load_emojis: the code point ranges, in the order of the code.
ranges ==
    << <<128512, 128591>>,   \* 0x1F600..0x1F64F
       <<127744, 128511>>,   \* 0x1F300..0x1F5FF
       <<128640, 128767>>,   \* 0x1F680..0x1F6FF
       <<129280, 129535>>,   \* 0x1F900..0x1F9FF
       <<9728, 9983>>,       \* 0x2600..0x26FF
       <<9984, 10175>>,      \* 0x2700..0x27BF
       <<127456, 127487>>,   \* 0x1F1E0..0x1F1FF
       <<129648, 129791>> >> \* 0x1FA70..0x1FAFF

\* The dict _load_emojis appends for a code point; url is the one-character
\* string chr(code).
EmojiItem(code) ==
    [name |-> title(lower(UnicodeName(code))), url |-> <<code>>,
     type |-> "emoji", source |-> "Emoji"]

\* One range of _load_emojis: the named code points not seen before, in
\* ascending order, appended to the list.
LoadRange(acc, range) ==
    LET seen == {acc[i].url : i \in 1..Len(acc)}
        codes == [i \in 1..(range[2] - range[1] + 1) |-> range[1] + i - 1]
        Fresh(code) == HasName(code) /\ <<code>> \notin seen
        new == SelectSeq(codes, Fresh)
    IN  acc \o [i \in 1..Len(new) |-> EmojiItem(new[i])]

RECURSIVE LoadFrom(_, _)
LoadFrom(k, acc) ==
    IF k > Len(ranges) THEN acc ELSE LoadFrom(k + 1, LoadRange(acc, ranges[k]))

\* self.all_emojis after EmojiSource.__init__; nothing changes it later.
all_emojis == LoadFrom(1, <<>>)

\* list[a:b] taken for list[a..b]: the slice starts one element early.
SliceFromOne(list, a, b) ==
    SubSeq(list, IF a < 1 THEN 1 ELSE a, Min(b, Len(list)))

\* list[a:b] with 0 <= a
Slice(list, a, b) == SubSeq(list, a + 1, Min(b, Len(list)))

\* EmojiSource.search that takes the catalog for exhausted only beyond its end.
EmojiSearchPastEnd(query, pos) ==
    LET offset == IF Truthy(pos) THEN pos.n ELSE 0
        list == IF query /= <<>>
                THEN LET q == lower(query)
                         Match(item) ==
                             Contains(lower(item.name), q) \/ q = item.url
                     IN  SelectSeq(all_emojis, Match)
                ELSE all_emojis
        sliced == Slice(list, offset, offset + BATCH_SIZE)
        next_offset == offset + Len(sliced)
    IN  IF query = <<>> /\ sliced = <<>> THEN Page(<<>>, None)
        ELSE Page(sliced, IF next_offset > Len(list) THEN None
                          ELSE IntCursor(next_offset, "Emojis", query))

\* EmojiSource.search(query, pos)
EmojiSearch(query, pos) ==
    LET offset == IF Truthy(pos) THEN pos.n ELSE 0
    IN  IF query /= <<>>
        THEN LET q == lower(query)
                 Match(item) == Contains(lower(item.name), q) \/ q = item.url
                 filtered == SelectSeq(all_emojis, Match)
                 sliced == Slice(filtered, offset, offset + BATCH_SIZE)
                 next_offset == offset + Len(sliced)
             IN  Page(sliced, IF next_offset >= Len(filtered) THEN None
                              ELSE IntCursor(next_offset, "Emojis", query))
        ELSE LET sliced == Slice(all_emojis, offset, offset + BATCH_SIZE)
                 next_offset == offset + Len(sliced)
             IN  IF sliced = <<>> THEN Page(<<>>, None)
                 ELSE Page(sliced, IF next_offset >= Len(all_emojis) THEN None
                                   ELSE IntCursor(next_offset, "Emojis", query))

\* ------------------------------------------------------------ LocalSource
\* File names are strings of the same characters, 46 being the full stop.
\* str.endswith(suffix)
EndsWith(str, suffix) ==
    /\ Len(str) >= Len(suffix)
    /\ SubSeq(str, Len(str) - Len(suffix) + 1, Len(str)) = suffix

\* ('.png', '.jpg', '.jpeg', '.gif', '.webp')
ImageSuffixes ==
    {<<46, 16, 14, 7>>, <<46, 10, 16, 7>>, <<46, 10, 16, 5, 7>>,
     <<46, 7, 9, 6>>, <<46, 23, 5, 2, 16>>}

\* f.lower().endswith((...))
IsImage(f) == \E suffix \in ImageSuffixes : EndsWith(lower(f), suffix)

\* The i-th image of a directory: a stem of two letters and an extension,
\* which every third file has in upper case.
ImageName(i) ==
    <<1 + (i \div 26), 1 + (i % 26)>>
    \o (CASE i % 3 = 0 -> <<46, 116, 114, 107>>
          [] i % 3 = 1 -> <<46, 16, 14, 7>>
          [] OTHER -> <<46, 7, 9, 6>>)

\* LOCAL_IMG_DIR with n images and one file that is no image ("n.txt"), its
\* entries in the order of their names; the file names imports.json has a
\* record for.
Directory(n) ==
    [exists |-> TRUE,
     entries |-> [i \in 1..n |-> ImageName(i)] \o << <<14, 46, 20, 24, 20>> >>,
     imports |-> {ImageName(i) : i \in {j \in 1..n : j % 4 = 0}}]
NoDirectory == [exists |-> FALSE, entries |-> <<>>, imports |-> {}]

Reverse(list) == [i \in 1..Len(list) |-> list[Len(list) + 1 - i]]

\* os.listdir(LOCAL_IMG_DIR): the entries in an order the file system picks
\* for the call.  No code sorts the list.
Listings(dir) == {dir.entries, Reverse(dir.entries)}

\* The dict LocalSource.search builds for file f: the url is the path of the
\* file below LOCAL_IMG_DIR ("/l/"), original_url is there for an import.
LocalItem(f, imports) ==
    IF f \in imports
    THEN [name |-> f, url |-> <<47, 12, 47>> \o f, type |-> "local",
          source |-> "Local", original_url |-> <<21>> \o f]
    ELSE [name |-> f, url |-> <<47, 12, 47>> \o f, type |-> "local",
          source |-> "Local"]

\* LocalSource.search that takes the listing for exhausted only beyond its end.
LocalSearchPastEnd(dir, listing, query, pos) ==
    IF ~dir.exists THEN Page(<<>>, None)
    ELSE IF pos.kind = "str" /\ Truthy(pos) THEN Raised
    ELSE
    LET offset == IF Truthy(pos) THEN pos.n ELSE 0
        Match(f) ==
            IsImage(f) /\ (query = <<>> \/ Contains(lower(f), lower(query)))
        all_files == SelectSeq(listing, Match)
        sliced == Slice(all_files, offset, offset + BATCH_SIZE)
        next_offset == offset + Len(sliced)
    IN  IF sliced = <<>> THEN Page(<<>>, None)
        ELSE Page([i \in 1..Len(sliced) |-> LocalItem(sliced[i], dir.imports)],
                  IF next_offset > Len(all_files) THEN None
                  ELSE IntCursor(next_offset, "Local Images", query))

\* LocalSource.search(query, pos) over directory dir, listing being what
\* os.listdir returns to this call.  A str cursor makes the slice raise.
LocalSearch(dir, listing, query, pos) ==
    IF ~dir.exists THEN Page(<<>>, None)
    ELSE IF pos.kind = "str" /\ Truthy(pos) THEN Raised
    ELSE
    LET offset == IF Truthy(pos) THEN pos.n ELSE 0
        Match(f) ==
            IsImage(f) /\ (query = <<>> \/ Contains(lower(f), lower(query)))
        all_files == SelectSeq(listing, Match)
        sliced == Slice(all_files, offset, offset + BATCH_SIZE)
        next_offset == offset + Len(sliced)
    IN  IF sliced = <<>> THEN Page(<<>>, None)
        ELSE Page([i \in 1..Len(sliced) |-> LocalItem(sliced[i], dir.imports)],
                  IF next_offset >= Len(all_files) THEN None
                  ELSE IntCursor(next_offset, "Local Images", query))

\* ---------------------------------------------------------------- ImageCard
MaxPageCards == 2   \* ImageCards made for one page
MaxSeed == 1        \* hash seeds a process can start with: 0..MaxSeed
HashBits == 3       \* bits of a str hash here (64 in CPython)

\* The items cards are made for: remote items that share a url under another
\* name and under another type, another remote item, an emoji, a local file,
\* and a dict with an "error" key.
CardItems ==
    {Item("cat", "https://t/1.gif", "gif", "Tenor"),
     Item("dog", "https://t/1.gif", "gif", "Tenor"),
     Item("cat", "https://t/1.gif", "webp", "7TV"),
     Item("Emote", "https://s/1/2x.webp", "webp", "7TV"),
     Item("Star", "E1", "emoji", "Emoji"),
     Item("a.png", "/local_images/a.png", "local", "Local"),
     [name |-> "x", url |-> "", type |-> "gif", source |-> "", error |-> "e"]}

UrlCode(url) ==
    CASE url = "https://t/1.gif" -> 1
      [] url = "https://s/1/2x.webp" -> 2
      [] OTHER -> 3

\* hash(url): a signed number that depends on the seed of the process.
Hash(seed, url) ==
    ((UrlCode(url) * (2 * seed + 1) + 3 * seed) % (2 ^ HashBits))
    - 2 ^ (HashBits - 1)

Abs(n) == IF n < 0 THEN 0 - n ELSE n

\* Values of ImageCard.local_path: None, "EMOJI", the path given for a local
\* file, and DATA_DIR / tmp_<hash><ext>.
NoPath == [kind |-> "none", url |-> "", hash |-> 0, ext |-> ""]
EmojiPath == [kind |-> "EMOJI", url |-> "", hash |-> 0, ext |-> ""]
FilePath(url) == [kind |-> "file", url |-> url, hash |-> 0, ext |-> ""]

\* A tmp_ name made from the number of files DATA_DIR holds.
TmpPathByCount(seed, data) ==
    [kind |-> "tmp", url |-> "", hash |-> Cardinality(data_dir),
     ext |-> IF data.type = "gif" THEN ".gif" ELSE ".webp"]

\* load_bytes: ext, fname and self.local_path of a downloaded item.
TmpPath(seed, data) ==
    [kind |-> "tmp", url |-> "", hash |-> Abs(Hash(seed, data.url)),
     ext |-> IF data.type = "gif" THEN ".gif" ELSE ".webp"]

\* A card: its data, the state of its label, its local_path, its download
\* worker ("none", "running", "done") and, as history, what the request of
\* the worker met ("", "200", "error").
Card(data, lbl, local_path, worker) ==
    [data |-> data, lbl |-> lbl, local_path |-> local_path,
     worker |-> worker, http |-> ""]

\* ImageCard.__init__ that sends every item without "error" to the download
\* worker.
ImageCardAllRemote(data, shown) ==
    IF "error" \in DOMAIN data THEN Card(data, "Error", NoPath, "none")
    ELSE Card(data, "...", NoPath, "running")

\* ImageCard.__init__(data), lines 531-545; shown is what QMovie / QPixmap
\* make of a local file ("movie", "pixmap", or "" for a file they cannot
\* read).
ImageCard(data, shown) ==
    IF "error" \in DOMAIN data THEN Card(data, "Error", NoPath, "none")
    ELSE IF data.type = "emoji" THEN Card(data, data.url, EmojiPath, "none")
    ELSE IF data.type = "local"
         THEN Card(data, shown, FilePath(data.url), "none")
    ELSE Card(data, "...", NoPath, "running")

\* open(self.local_path, 'wb').write(data_bytes): the file of that name now
\* holds content.
WriteFile(dir, path, content) ==
    {f \in dir : f.hash /= path.hash \/ f.ext /= path.ext}
    \cup {[hash |-> path.hash, ext |-> path.ext, content |-> content]}

\* load_bytes(data_bytes) of a downloaded card: DATA_DIR afterwards; an
\* empty body writes nothing.
load_bytes_dir(card, content, seed, dir) ==
    IF content = "" THEN dir
    ELSE WriteFile(dir, TmpPath(seed, card.data), content)

\* load_bytes(data_bytes): the card afterwards, dir being DATA_DIR after the
\* write.  The label shows the movie if the file at local_path is an image.
load_bytes(card, seed, dir) ==
    LET path == TmpPath(seed, card.data)
    IN  [card EXCEPT
           !.local_path = path,
           !.lbl = IF \E f \in dir : /\ f.hash = path.hash /\ f.ext = path.ext
                                      /\ f.content = "image"
                   THEN "movie" ELSE @,
           !.worker = "done",
           !.http = "200"]

\* tmp_ files an earlier run of the program left in DATA_DIR.
Leftovers ==
    {[hash |-> 2, ext |-> ".gif", content |-> "image"],
     [hash |-> 4, ext |-> ".webp", content |-> "junk"]}

\* cleanup_temp_files: every file DATA_DIR.glob("tmp_*") yields is unlinked;
\* the files of failing are those whose unlink raises, which is printed.
cleanup_temp_files(dir, failing) == dir \cap failing

\* An entry of the tree below DATA_DIR: the directory it is in ("" is
\* DATA_DIR itself, "local_images" is LOCAL_IMG_DIR, "tmp_d" a directory
\* named tmp_d), its name, and whether it is a directory.
DirEntry(parent, name, isdir) == [parent |-> parent, name |-> name, isdir |-> isdir]

\* The entries a DATA_DIR can hold here: favorites.json, config.json,
\* imports.json, local_images with tmp_c.png and a.gif in it, the cache files
\* tmp_a.gif and tmp_, files named xtmp_a, TMP_a and tmp, and a directory
\* tmp_d with the file tmp_e in it.
DirEntries ==
    {DirEntry("", <<6, 1, 22, 15, 18, 9, 20, 5, 19, 46, 10, 19, 15, 14>>, FALSE),
     DirEntry("", <<3, 15, 14, 6, 9, 7, 46, 10, 19, 15, 14>>, FALSE),
     DirEntry("", <<9, 13, 16, 15, 18, 20, 19, 46, 10, 19, 15, 14>>, FALSE),
     DirEntry("", <<12, 15, 3, 1, 12, 95, 9, 13, 1, 7, 5, 19>>, TRUE),
     DirEntry("local_images", <<20, 13, 16, 95, 3, 46, 16, 14, 7>>, FALSE),
     DirEntry("local_images", <<1, 46, 7, 9, 6>>, FALSE),
     DirEntry("", <<20, 13, 16, 95, 1, 46, 7, 9, 6>>, FALSE),
     DirEntry("", <<20, 13, 16, 95>>, FALSE),
     DirEntry("", <<24, 20, 13, 16, 95, 1>>, FALSE),
     DirEntry("", <<120, 113, 116, 95, 1>>, FALSE),
     DirEntry("", <<20, 13, 16>>, FALSE),
     DirEntry("", <<20, 13, 16, 95, 4>>, TRUE),
     DirEntry("tmp_d", <<20, 13, 16, 95, 5>>, FALSE)}

\* str.startswith(prefix)
StartsWith(str, prefix) ==
    Len(str) >= Len(prefix) /\ SubSeq(str, 1, Len(prefix)) = prefix

\* DATA_DIR.rglob(prefix + "*"): the pattern applied in every directory.
rglob(tree, prefix) == {e \in tree : StartsWith(e.name, prefix)}

\* DATA_DIR.glob(prefix + "*"): the entries of DATA_DIR itself, files and
\* directories, whose name starts with prefix.
glob(tree, prefix) == {e \in tree : e.parent = "" /\ StartsWith(e.name, prefix)}

\* A failed download that ends the downloads of the whole page.
failed_for_all(cards, i) ==
    [j \in 1..Len(cards) |->
        IF cards[j].worker = "running"
        THEN [cards[j] EXCEPT !.lbl = "X", !.worker = "done", !.http = "error"]
        ELSE cards[j]]

\* ImageDownloadWorker.failed -> lambda: self.lbl.setText("X"), for card i.
failed(cards, i) ==
    [cards EXCEPT ![i].lbl = "X", ![i].worker = "done", ![i].http = "error"]

\* -------------------------------------------------------------- favourites
MaxFavs == 3        \* records favorites.json holds when the process starts
MaxToggles == 2     \* toggle_fav calls between their read and their write

\* The items cards are starred for: two results that share a url under
\* different names ("Cat", "dog" at "t/a"), "bee" at "s/A", and the emoji "Sun".
FavItems ==
    {[name |-> <<103, 1, 20>>, url |-> <<20, 47, 1>>, type |-> "gif",
      source |-> "Tenor"],
     [name |-> <<4, 15, 7>>, url |-> <<20, 47, 1>>, type |-> "gif",
      source |-> "Tenor"],
     [name |-> <<2, 5, 5>>, url |-> <<19, 47, 101>>, type |-> "webp",
      source |-> "7TV"],
     [name |-> <<119, 21, 14>>, url |-> <<9731>>, type |-> "emoji",
      source |-> "Emoji"]}
NoItem == [name |-> <<>>, url |-> <<>>, type |-> "", source |-> ""]

\* The texts of fav_search_input: none, "a", "A", "cAt", "/", "z".
FavQueries == {<<>>, <<1>>, <<101>>, <<3, 101, 20>>, <<47>>, <<26>>}

\* FAVS_FILE.  kind is "missing" (exists() is False), "unreadable" (open
\* raises), "invalid" (json.load raises), "not_list" (JSON that is no list:
\* null, a number, a dict), "bad_list" (a list with an entry that has no
\* 'url': [{}]) or "list" (a list of item records, favs).
FavsFile(kind, favs) == [kind |-> kind, favs |-> favs]

HasUrl(favs, url) == \E i \in 1..Len(favs) : favs[i].url = url

\* The lists of item records with no url twice.
FavLists ==
    {favs \in UNION {[1..k -> FavItems] : k \in 0..MaxFavs} :
        \A i, j \in 1..Len(favs) : favs[i].url = favs[j].url => i = j}

FavsFiles ==
    {FavsFile(kind, <<>>) :
        kind \in {"missing", "unreadable", "invalid", "not_list", "bad_list"}}
    \cup {FavsFile("list", favs) : favs \in FavLists}

\* ImageCard.is_favorited
is_favorited(file, data) ==
    IF file.kind = "list" THEN HasUrl(file.favs, data.url) ELSE FALSE

\* toggle_fav, lines 593-597: the value of favs after the read.
ReadFavs(file) ==
    IF file.kind \in {"missing", "unreadable", "invalid"}
    THEN FavsFile("list", <<>>)
    ELSE file

\* toggle_fav that appends whatever the list holds.
toggle_fav_append(favs, data) ==
    [raised |-> favs.kind /= "list", found |-> FALSE,
     favs |-> IF favs.kind = "list" THEN Append(favs.favs, data) ELSE <<>>]

\* toggle_fav that looks for the record of the item, not for its url.
toggle_fav_by_record(favs, data) ==
    IF favs.kind /= "list" THEN [raised |-> TRUE, found |-> FALSE, favs |-> <<>>]
    ELSE IF \E i \in 1..Len(favs.favs) : favs.favs[i] = data
    THEN LET i == CHOOSE i \in 1..Len(favs.favs) :
                     /\ favs.favs[i] = data
                     /\ \A j \in 1..(i - 1) : favs.favs[j] /= data
         IN  [raised |-> FALSE, found |-> TRUE, favs |-> RemoveAt(favs.favs, i)]
    ELSE [raised |-> FALSE, found |-> FALSE, favs |-> Append(favs.favs, data)]

\* toggle_fav, lines 599-610, on the value favs that was read: the loop pops
\* the first entry with the url of the card, or the card's data is appended.
\* enumerate, item['url'] and append raise on a value that is no list of
\* records with a url.
toggle_fav(favs, data) ==
    IF favs.kind /= "list" THEN [raised |-> TRUE, found |-> FALSE, favs |-> <<>>]
    ELSE IF HasUrl(favs.favs, data.url)
    THEN LET i == CHOOSE i \in 1..Len(favs.favs) :
                     /\ favs.favs[i].url = data.url
                     /\ \A j \in 1..(i - 1) : favs.favs[j].url /= data.url
         IN  [raised |-> FALSE, found |-> TRUE, favs |-> RemoveAt(favs.favs, i)]
    ELSE [raised |-> FALSE, found |-> FALSE, favs |-> Append(favs.favs, data)]

\* load_favorites that looks at the names only.
load_favorites_by_name(file, text) ==
    LET query == lower(text)
        Test(item) == query = <<>> \/ Contains(lower(item.name), query)
    IN  IF file.kind = "list" THEN SelectSeq(file.favs, Test) ELSE <<>>

\* load_favorites, lines 1051-1071: the data of the cards it makes, text being
\* fav_search_input.text().  Whatever the read or the loop raises is passed
\* over and no card is made.
load_favorites(file, text) ==
    LET query == lower(text)
        Test(item) == \/ query = <<>>
                      \/ Contains(lower(item.name), query)
                      \/ Contains(lower(item.url), query)
    IN  IF file.kind = "list" THEN SelectSeq(file.favs, Test) ELSE <<>>

\* A slot that runs as if on a thread of its own.
ui_thread_shared(frames) == TRUE

\* star_btn.clicked, textChanged and currentChanged are direct connections
\* of objects of the UI thread: a slot starts when no other slot is running.
ui_thread_free(frames) == frames = <<>>

\* What the favourites handlers leave: the text of fav_search_input, the
\* data of fav_card_widgets, and as history the last handler, its card, the
\* star of that card, FAVS_FILE before the handler, and whether the handler
\* ended in an exception nothing caught.
FavUi(text, listed, op, data, star, before, uncaught) ==
    [text |-> text, listed |-> listed, op |-> op, data |-> data, star |-> star,
     before |-> before, uncaught |-> uncaught]

\* ------------------------------------------------------ session operations
\* SearchWorker(source, query, pos).  stale and orphan are history: the
\* worker was started before the latest search(); self.worker no longer
\* refers to it.
SearchWorker(src, query, pos) ==
    [source |-> src, query |-> query, pos |-> pos, stale |-> FALSE, orphan |-> FALSE]

\* load_more that starts no worker while another one runs.
load_more_if_idle(ws, src, query, pos) ==
    IF ws /= <<>> THEN ws ELSE <<SearchWorker(src, query, pos)>>

\* App.load_more: self.worker = SearchWorker(...); self.worker.start().  The
\* workers started before lose their only reference.
load_more(ws, src, query, pos) ==
    Append([i \in 1..Len(ws) |-> [ws[i] EXCEPT !.orphan = TRUE]],
           SearchWorker(src, query, pos))

MarkStale(ws) == [i \in 1..Len(ws) |-> [ws[i] EXCEPT !.stale = TRUE]]

\* App.check_scroll: bar.value() > bar.maximum() * 0.9, and then
\* not self.is_loading and self.next_ptr.  For the integers of a scroll bar
\* value > maximum * 0.9 in floating point is value * 10 > maximum * 9.
check_scroll(value, maximum, loading, ptr) ==
    /\ value * 10 > maximum * 9
    /\ ~loading /\ Truthy(ptr)

\* fill_screen_if_needed without the test of is_loading.
fill_screen_ignoring_loading(value, maximum, loading, ptr) ==
    /\ Truthy(ptr)
    /\ (maximum <= 0 \/ value * 10 >= maximum * 9)

\* App.fill_screen_if_needed: the condition under which it calls load_more.
fill_screen_if_needed(value, maximum, loading, ptr) ==
    /\ ~(loading \/ ~Truthy(ptr))
    /\ (maximum <= 0 \/ value * 10 >= maximum * 9)

\* display_results that puts the new cards in front.
display_widgets_in_front(cards, results) ==
    IF results = <<>> /\ cards = <<>> THEN <<NoResultsLabel>>
    ELSE results \o cards

\* App.display_results, the widgets: the label when nothing was found and
\* nothing is shown, else one ImageCard per item, appended in order.
display_widgets(cards, results) ==
    IF results = <<>> /\ cards = <<>> THEN <<NoResultsLabel>>
    ELSE cards \o results

\* App.display_results, the timers it starts: none on the early return; else
\* one in reflow_grids when the search tab is shown and one more when
\* next_ptr is set.
display_timers(cards, results, next_pos, tabIndex) ==
    IF results = <<>> /\ cards = <<>> THEN 0
    ELSE (IF tabIndex = 0 THEN 1 ELSE 0) + (IF Truthy(next_pos) THEN 1 ELSE 0)

\* --------------------------------------------------------------- actions
\* The session after App.__init__: load_favorites has reflowed the grids, which
\* started the first fill timer.
SessionInit ==
    /\ running = TRUE
    /\ tab = 0
    /\ is_loading = FALSE
    /\ next_ptr = None
    /\ current_query = <<>>
    /\ current_source_name = ""
    /\ search_card_widgets = <<>>
    /\ workers = <<>>
    /\ fill_timers = 1
    /\ resize_timer = FALSE
    /\ viewport \in Viewports
    /\ bar_value = 0
    /\ ev = Event("other", FALSE, FALSE)
    /\ null_seen = FALSE

\* No card has been made and DATA_DIR holds no tmp_ file.
NoCards ==
    /\ hash_seed = 0
    /\ image_cards = <<>>
    /\ data_dir = {}
    /\ window = "shown"

\* There is no favorites.json and no favourites handler has run.
NoFavs ==
    /\ favs_file = FavsFile("missing", <<>>)
    /\ fav_frames = <<>>
    /\ fav_ui = FavUi(<<>>, <<>>, "", NoItem, FALSE, FavsFile("missing", <<>>), FALSE)

Init == SessionInit /\ chain = NoChain /\ call = NoCall /\ NoCards /\ NoFavs

\* App.search with the combo box at src and the search field at query.
search(src, query) ==
    /\ running
    /\ Len(workers) < MaxWorkers
    /\ tab' = 0
    /\ current_source_name' = src
    /\ current_query' = query
    /\ next_ptr' = None
    /\ search_card_widgets' = <<>>
    /\ is_loading' = TRUE
    /\ workers' = load_more(MarkStale(workers), current_source_name',
                            current_query', next_ptr')
    /\ bar_value' = 0
    /\ ev' = Event("search", TRUE, FALSE)
    /\ null_seen' = FALSE
    /\ UNCHANGED <<chain, call, card_vars, fav_vars>>
    /\ UNCHANGED <<running, fill_timers, resize_timer, viewport>>

\* The user moves the scroll bar to v: valueChanged -> check_scroll.
Scroll(v) ==
    /\ running
    /\ v \in 0..BarMaximum(search_card_widgets, viewport)
    /\ v /= bar_value
    /\ bar_value' = v
    /\ LET fetch == check_scroll(v, BarMaximum(search_card_widgets, viewport),
                                 is_loading, next_ptr)
       IN  /\ fetch => Len(workers) < MaxWorkers
           /\ is_loading' = (is_loading \/ fetch)
           /\ workers' = IF fetch
                         THEN load_more(workers, current_source_name,
                                        current_query, next_ptr)
                         ELSE workers
           /\ ev' = Event("check_scroll", fetch, FALSE)
    /\ UNCHANGED <<chain, call, card_vars, fav_vars>>
    /\ UNCHANGED <<running, tab, next_ptr, current_query, current_source_name,
                   search_card_widgets, fill_timers, resize_timer, viewport,
                   null_seen>>

\* A singleShot(50, fill_screen_if_needed) timer fires.
FillTimeout ==
    /\ running
    /\ fill_timers > 0
    /\ fill_timers' = fill_timers - 1
    /\ LET fetch == fill_screen_if_needed(
                        bar_value, BarMaximum(search_card_widgets, viewport),
                        is_loading, next_ptr)
       IN  /\ fetch => Len(workers) < MaxWorkers
           /\ is_loading' = (is_loading \/ fetch)
           /\ workers' = IF fetch
                         THEN load_more(workers, current_source_name,
                                        current_query, next_ptr)
                         ELSE workers
           /\ ev' = Event("fill_screen_if_needed", fetch, FALSE)
    /\ UNCHANGED <<chain, call, card_vars, fav_vars>>
    /\ UNCHANGED <<running, tab, next_ptr, current_query, current_source_name,
                   search_card_widgets, resize_timer, viewport, bar_value,
                   null_seen>>

\* App.resizeEvent: the window takes a size that shows vp cards; the
\* debounce timer is (re)started.  The scroll range follows the viewport; a
\* value above the new maximum is pulled down to it, which is a valueChanged
\* and runs check_scroll.
resizeEvent(vp) ==
    /\ running
    /\ vp \in Viewports
    /\ vp /= viewport
    /\ viewport' = vp
    /\ resize_timer' = TRUE
    /\ LET maximum == BarMaximum(search_card_widgets, vp)
           value == Min(bar_value, maximum)
           fetch == value /= bar_value
                    /\ check_scroll(value, maximum, is_loading, next_ptr)
       IN  /\ bar_value' = value
           /\ fetch => Len(workers) < MaxWorkers
           /\ is_loading' = (is_loading \/ fetch)
           /\ workers' = IF fetch
                         THEN load_more(workers, current_source_name,
                                        current_query, next_ptr)
                         ELSE workers
           /\ ev' = IF value /= bar_value
                    THEN Event("check_scroll", fetch, FALSE)
                    ELSE Event("other", FALSE, FALSE)
    /\ UNCHANGED <<chain, call, card_vars, fav_vars>>
    /\ UNCHANGED <<running, tab, next_ptr, current_query, current_source_name,
                   search_card_widgets, fill_timers, null_seen>>

\* resize_timer.timeout -> App.reflow_grids
ResizeTimeout ==
    /\ running
    /\ resize_timer
    /\ resize_timer' = FALSE
    /\ LET added == IF tab = 0 THEN 1 ELSE 0
       IN  /\ fill_timers + added <= MaxTimers
           /\ fill_timers' = fill_timers + added
    /\ ev' = Event("other", FALSE, FALSE)
    /\ UNCHANGED <<chain, call, card_vars, fav_vars>>
    /\ UNCHANGED <<running, tab, is_loading, next_ptr, current_query,
                   current_source_name, search_card_widgets, workers,
                   viewport, bar_value, null_seen>>

\* SearchWorker.run of worker i returns from search and emits results_ready;
\* the queued signal runs App.display_results on the UI thread.
results_ready(i) ==
    /\ running
    /\ i \in 1..Len(workers)
    /\ \E o \in SourceSearch(workers[i].source, workers[i].query, workers[i].pos) :
         /\ ~o.raised
         /\ Len(display_widgets(search_card_widgets, o.results)) <= MaxCards
         /\ LET added == display_timers(search_card_widgets, o.results,
                                        o.next_pos, tab)
            IN  /\ fill_timers + added <= MaxTimers
                /\ fill_timers' = fill_timers + added
         /\ is_loading' = FALSE
         /\ next_ptr' = o.next_pos
         /\ search_card_widgets' = display_widgets(search_card_widgets, o.results)
         /\ null_seen' = (null_seen \/ (~workers[i].stale /\ o.next_pos = None))
    /\ workers' = RemoveAt(workers, i)
    /\ ev' = Event("display_results", FALSE, workers[i].stale)
    /\ UNCHANGED <<chain, call, card_vars, fav_vars>>
    /\ UNCHANGED <<running, tab, current_query, current_source_name,
                   resize_timer, viewport, bar_value>>

\* SearchWorker.run of worker i: search raises and run emits nothing.  The
\* binding hands an exception that leaves run to sys.excepthook: with the
\* hook of the interpreter it ends the process (qFatal), with a hook that
\* only reports the thread ends and the session goes on.
WorkerRaises(i) ==
    /\ running
    /\ i \in 1..Len(workers)
    /\ \E o \in SourceSearch(workers[i].source, workers[i].query, workers[i].pos) :
         o.raised
    /\ ev' = Event("raised", FALSE, FALSE)
    /\ UNCHANGED <<chain, call, card_vars, fav_vars>>
    /\ \/ /\ workers' = RemoveAt(workers, i)
          /\ UNCHANGED <<running, tab, is_loading, next_ptr, current_query,
                         current_source_name, search_card_widgets, fill_timers,
                         resize_timer, viewport, bar_value, null_seen>>
       \/ /\ running' = FALSE
          /\ tab' = 0
          /\ is_loading' = FALSE
          /\ next_ptr' = None
          /\ current_query' = <<>>
          /\ current_source_name' = ""
          /\ search_card_widgets' = <<>>
          /\ workers' = <<>>
          /\ fill_timers' = 0
          /\ resize_timer' = FALSE
          /\ viewport' = 1
          /\ bar_value' = 0
          /\ null_seen' = FALSE

\* A running QThread that load_more left without a reference: when its
\* wrapper is collected Qt destroys a running thread, which ends the process
\* ("QThread: Destroyed while thread is still running"), unless the thread
\* got to deliver its signal first (results_ready above).  Nothing of the
\* session outlives the process.
OrphanDestroyed(i) ==
    /\ running
    /\ i \in 1..Len(workers)
    /\ workers[i].orphan
    /\ running' = FALSE
    /\ ev' = Event("aborted", FALSE, FALSE)
    /\ UNCHANGED <<chain, call, card_vars, fav_vars>>
    /\ tab' = 0
    /\ is_loading' = FALSE
    /\ next_ptr' = None
    /\ current_query' = <<>>
    /\ current_source_name' = ""
    /\ search_card_widgets' = <<>>
    /\ workers' = <<>>
    /\ fill_timers' = 0
    /\ resize_timer' = FALSE
    /\ viewport' = 1
    /\ bar_value' = 0
    /\ null_seen' = FALSE

\* tabs.currentChanged -> App.on_tab_change(index); index 1 reloads the
\* favourites and reflows, which starts no fill timer on that tab.
on_tab_change(index) ==
    /\ running
    /\ ui_thread_free(fav_frames)
    /\ index \in {0, 1}
    /\ index /= tab
    /\ tab' = index
    /\ ev' = Event("other", FALSE, FALSE)
    /\ fav_ui' = IF index = 1
                 THEN [fav_ui EXCEPT
                         !.listed = load_favorites(favs_file, fav_ui.text)]
                 ELSE fav_ui
    /\ UNCHANGED <<chain, call, card_vars, favs_file, fav_frames>>
    /\ UNCHANGED <<running, is_loading, next_ptr, current_query,
                   current_source_name, search_card_widgets, workers,
                   fill_timers, resize_timer, viewport, bar_value, null_seen>>

Next ==
    \/ \E in \in SearchInputs : search(in[1], in[2])
    \/ \E v \in ScrollStops(BarMaximum(search_card_widgets, viewport)) : Scroll(v)
    \/ FillTimeout
    \/ \E vp \in Viewports : resizeEvent(vp)
    \/ ResizeTimeout
    \/ \E i \in 1..MaxWorkers : results_ready(i)
    \/ \E i \in 1..MaxWorkers : WorkerRaises(i)
    \/ \E i \in 1..MaxWorkers : OrphanDestroyed(i)
    \/ \E index \in {0, 1} : on_tab_change(index)

Spec == Init /\ [][Next]_vars

\* --------------------------------------------- a cursor chain on EmojiSource
\* A caller that calls EmojiSource.search with cursor None and then with each
\* cursor the call before returned, until it gets None: the query, the cursor
\* for the next call, the pages so far, and whether None came back.
ChainInit ==
    /\ SessionInit
    /\ viewport = 1
    /\ call = NoCall
    /\ NoCards
    /\ NoFavs
    /\ \E query \in EmojiQueries :
          chain = [query |-> query, pos |-> None, pages |-> <<>>, done |-> FALSE]

EmojiCall ==
    /\ ~chain.done
    /\ LET r == EmojiSearch(chain.query, chain.pos)
       IN  chain' = [query |-> chain.query,
                     pos |-> r.next_pos,
                     pages |-> Append(chain.pages, r.results),
                     done |-> r.next_pos = None]
    /\ UNCHANGED <<session_vars, call, card_vars, fav_vars>>

EmojiChainSpec == ChainInit /\ [][EmojiCall]_vars /\ WF_vars(EmojiCall)

\* The same caller entering at any offset: the first positions, the ends of
\* the first page, and the positions around the end of the catalog.
StartOffsets ==
    {0, 1, BATCH_SIZE - 1, BATCH_SIZE,
     Len(all_emojis) - 1, Len(all_emojis), Len(all_emojis) + 1}

PageInit ==
    /\ SessionInit
    /\ viewport = 1
    /\ call = NoCall
    /\ NoCards
    /\ NoFavs
    /\ \E query \in EmojiQueries :
          \E pos \in {None} \cup {IntCursor(k, "Emojis", query) : k \in StartOffsets} :
             chain = [query |-> query, pos |-> pos, pages |-> <<>>,
                      done |-> FALSE]

EmojiPageSpec == PageInit /\ [][EmojiCall]_vars /\ WF_vars(EmojiCall)

\* ------------------------------------------------ one call of a remote adapter
TenorInit ==
    /\ SessionInit
    /\ viewport = 1
    /\ chain = NoChain
    /\ NoCards
    /\ NoFavs
    /\ \E answer \in TenorAnswers :
          \E pos \in {None} \cup {StrCursor(t, "Tenor", <<1>>) : t \in TenorTokens} :
             call = [fn |-> "Tenor", query |-> <<1>>, pos |-> pos,
                     answer |-> answer, ret |-> Page(<<>>, None),
                     done |-> FALSE]

TenorCall ==
    /\ ~call.done
    /\ call.fn = "Tenor"
    /\ call' = [call EXCEPT !.ret = TenorFetch(call.answer, call.query, call.pos),
                            !.done = TRUE]
    /\ UNCHANGED <<session_vars, chain, card_vars, fav_vars>>

TenorSpec == TenorInit /\ [][TenorCall]_vars

SevenTVInit ==
    /\ SessionInit
    /\ viewport = 1
    /\ chain = NoChain
    /\ NoCards
    /\ NoFavs
    /\ \E answer \in SevenTVAnswers :
          \E pos \in {None} \cup {IntCursor(k, "7TV", <<1>>) : k \in 2..(MaxPos + 1)} :
             call = [fn |-> "7TV", query |-> <<1>>, pos |-> pos,
                     answer |-> answer, ret |-> Page(<<>>, None),
                     done |-> FALSE]

SevenTVCall ==
    /\ ~call.done
    /\ call.fn = "7TV"
    /\ call' = [call EXCEPT !.ret = SevenTVFetch(call.answer, call.query, call.pos),
                            !.done = TRUE]
    /\ UNCHANGED <<session_vars, chain, card_vars, fav_vars>>

SevenTVSpec == SevenTVInit /\ [][SevenTVCall]_vars

\* ------------------------------------------------ the purge of DATA_DIR
\* cleanup_temp_files on a DATA_DIR that holds tree: an entry in a directory
\* is there with its directory.
PurgeInit ==
    /\ SessionInit
    /\ viewport = 1
    /\ chain = NoChain
    /\ NoCards
    /\ NoFavs
    /\ \E tree \in SUBSET DirEntries :
          /\ \A e \in tree :
                e.parent /= ""
                => \E d \in tree : d.isdir /\ d.parent = "" /\ d.name =
                      (IF e.parent = "tmp_d" THEN <<20, 13, 16, 95, 4>>
                       ELSE <<12, 15, 3, 1, 12, 95, 9, 13, 1, 7, 5, 19>>)
          /\ call = [fn |-> "purge", tree |-> tree, ret |-> tree, done |-> FALSE]

\* cleanup_temp_files() of App.__init__ and of App.closeEvent: p.unlink() for
\* every p of the glob; unlink raises for a directory, and for the files of
\* failing.
PurgeCall ==
    /\ ~call.done
    /\ call.fn = "purge"
    /\ LET found == glob(call.tree, <<20, 13, 16, 95>>)
       IN  \E failing \in SUBSET {e \in found : ~e.isdir} :
              call' = [call EXCEPT
                         !.ret = (call.tree \ found)
                                 \cup cleanup_temp_files(found,
                                          failing \cup {e \in found : e.isdir}),
                         !.done = TRUE]
    /\ UNCHANGED <<session_vars, chain, card_vars, fav_vars>>

PurgeSpec == PurgeInit /\ [][PurgeCall]_vars

\* ------------------------------------------------- the cards of one page
CardInit ==
    /\ SessionInit
    /\ viewport = 1
    /\ chain = NoChain
    /\ call = NoCall
    /\ hash_seed \in 0..MaxSeed
    /\ image_cards = <<>>
    /\ \E failing \in SUBSET Leftovers :
          data_dir = cleanup_temp_files(Leftovers, failing)
    /\ window = "shown"
    /\ NoFavs

\* display_results / load_favorites: card = ImageCard(item, self)
MakeCard(data, shown) ==
    /\ window /= "exited"
    /\ Len(image_cards) < MaxPageCards
    /\ image_cards' = Append(image_cards, ImageCard(data, shown))
    /\ UNCHANGED <<session_vars, chain, call, hash_seed, data_dir, window, fav_vars>>

\* ImageDownloadWorker.run of card i gets status 200 and emits
\* image_loaded(r.content) -> ImageCard.load_bytes.
image_loaded(i, content) ==
    /\ window /= "exited"
    /\ i \in 1..Len(image_cards)
    /\ image_cards[i].worker = "running"
    /\ data_dir' = load_bytes_dir(image_cards[i], content, hash_seed, data_dir)
    /\ image_cards' =
         [image_cards EXCEPT ![i] = load_bytes(image_cards[i], hash_seed, data_dir')]
    /\ UNCHANGED <<session_vars, chain, call, hash_seed, window, fav_vars>>

\* ImageDownloadWorker.run of card i gets another status or an exception and
\* emits failed.
DownloadFailed(i) ==
    /\ window /= "exited"
    /\ i \in 1..Len(image_cards)
    /\ image_cards[i].worker = "running"
    /\ image_cards' = failed(image_cards, i)
    /\ UNCHANGED <<session_vars, chain, call, hash_seed, data_dir, window, fav_vars>>

\* The user closes the main window: App.closeEvent purges and accepts.  The
\* close of the last window posts the quit of the event loop; the workers
\* are not waited for, and signals they have emitted by then are delivered
\* before the loop ends.
closeEvent(failing) ==
    /\ window = "shown"
    /\ failing \subseteq data_dir
    /\ data_dir' = cleanup_temp_files(data_dir, failing)
    /\ window' = "closed"
    /\ UNCHANGED <<session_vars, chain, call, hash_seed, image_cards, fav_vars>>

\* app.exec() returns and sys.exit ends the process.
Exit ==
    /\ window = "closed"
    /\ window' = "exited"
    /\ UNCHANGED <<session_vars, chain, call, hash_seed, image_cards, data_dir,
                   fav_vars>>

CardNext ==
    \/ \E data \in CardItems, shown \in {"movie", "pixmap", ""} :
          MakeCard(data, shown)
    \/ \E i \in 1..MaxPageCards, content \in {"image", "junk", ""} :
          image_loaded(i, content)
    \/ \E i \in 1..MaxPageCards : DownloadFailed(i)
    \/ \E failing \in SUBSET data_dir : closeEvent(failing)
    \/ Exit

CardSpec == CardInit /\ [][CardNext]_vars

\* Every ImageDownloadWorker ends: requests.get answers, raises, or times out
\* after 15 seconds, and run emits image_loaded or failed.  The user is under
\* no obligation to make cards or to close the window.
CardFairSpec ==
    /\ CardSpec
    /\ \A i \in 1..MaxPageCards :
          WF_vars((\E content \in {"image", "junk", ""} : image_loaded(i, content))
                  \/ DownloadFailed(i))

\* ---------------------------------------------- a cursor chain on LocalSource
\* The directories: none, and directories of no, three, a page and more than
\* a page of images.  The queries: none, a letter in either case, an
\* extension, and one no file name contains.
Directories ==
    {NoDirectory} \cup
    {Directory(n) : n \in {0, 3, BATCH_SIZE, BATCH_SIZE + 1, 2 * BATCH_SIZE + 1}}
LocalQueries == {<<>>, <<1>>, <<101>>, <<16, 14, 7>>, <<26, 26>>}

LocalInit ==
    /\ SessionInit
    /\ viewport = 1
    /\ call = NoCall
    /\ NoCards
    /\ NoFavs
    /\ \E dir \in Directories, query \in LocalQueries :
          \E pos \in {None} \cup
                     {IntCursor(k, "Local Images", query) : k \in {1, BATCH_SIZE}} :
             chain = [query |-> query, pos |-> pos, pages |-> <<>>,
                      done |-> FALSE, dir |-> dir, first |-> pos]

LocalCall ==
    /\ ~chain.done
    /\ \E listing \in Listings(chain.dir) :
          LET r == LocalSearch(chain.dir, listing, chain.query, chain.pos)
          IN  chain' = [chain EXCEPT !.pos = r.next_pos,
                                     !.pages = Append(@, r.results),
                                     !.done = (r.next_pos = None)]
    /\ UNCHANGED <<session_vars, call, card_vars, fav_vars>>

LocalChainSpec == LocalInit /\ [][LocalCall]_vars /\ WF_vars(LocalCall)

\* ------------------------------------------------------ the favourites
\* App.__init__ ends with load_favorites() on whatever favorites.json holds.
FavInit ==
    /\ SessionInit
    /\ viewport = 1
    /\ chain = NoChain
    /\ call = NoCall
    /\ NoCards
    /\ favs_file \in FavsFiles
    /\ fav_frames = <<>>
    /\ fav_ui = FavUi(<<>>, load_favorites(favs_file, <<>>), "", NoItem, FALSE,
                      favs_file, FALSE)

\* ImageCard.__init__ of a card of the search tab:
\* self.update_star_style(self.is_favorited())
ShowCard(data) ==
    /\ running
    /\ ui_thread_free(fav_frames)
    /\ fav_ui' = [fav_ui EXCEPT !.op = "card", !.data = data,
                                !.star = is_favorited(favs_file, data),
                                !.before = favs_file]
    /\ UNCHANGED <<session_vars, chain, call, card_vars, favs_file, fav_frames>>

\* star_btn.clicked -> toggle_fav of a card of data, up to the end of the
\* read of FAVS_FILE.
toggle_fav_read(data) ==
    /\ running
    /\ ui_thread_free(fav_frames)
    /\ Len(fav_frames) < MaxToggles
    /\ fav_frames' = Append(fav_frames, [data |-> data, favs |-> ReadFavs(favs_file)])
    /\ UNCHANGED <<session_vars, chain, call, card_vars, favs_file, fav_ui>>

\* toggle_fav from the loop on: the list is changed and written, the star is
\* set, and refresh_favs_if_visible reloads the favourites tab if it is the
\* current one.  An exception of the loop, of append or of open(.., 'w')
\* leaves the slot uncaught and the binding ends the process.
toggle_fav_write(i) ==
    /\ running
    /\ i \in 1..Len(fav_frames)
    /\ LET frame == fav_frames[i]
           r == toggle_fav(frame.favs, frame.data)
       IN  IF r.raised \/ favs_file.kind = "unreadable"
           THEN /\ running' = FALSE
                /\ fav_frames' = <<>>
                /\ fav_ui' = [fav_ui EXCEPT !.op = "toggle", !.data = frame.data,
                                            !.before = favs_file,
                                            !.uncaught = TRUE]
                /\ UNCHANGED favs_file
           ELSE /\ favs_file' = FavsFile("list", r.favs)
                /\ fav_frames' = RemoveAt(fav_frames, i)
                /\ fav_ui' = FavUi(fav_ui.text,
                                   IF tab = 1
                                   THEN load_favorites(favs_file', fav_ui.text)
                                   ELSE fav_ui.listed,
                                   "toggle", frame.data, ~r.found, favs_file,
                                   FALSE)
                /\ UNCHANGED running
    /\ UNCHANGED <<tab, is_loading, next_ptr, current_query, current_source_name,
                   search_card_widgets, workers, fill_timers, resize_timer,
                   viewport, bar_value, ev, null_seen>>
    /\ UNCHANGED <<chain, call, card_vars>>

\* fav_search_input.textChanged -> load_favorites
fav_textChanged(text) ==
    /\ running
    /\ ui_thread_free(fav_frames)
    /\ text /= fav_ui.text
    /\ fav_ui' = [fav_ui EXCEPT !.text = text,
                                !.listed = load_favorites(favs_file, text),
                                !.op = "list", !.data = NoItem,
                                !.before = favs_file]
    /\ UNCHANGED <<session_vars, chain, call, card_vars, favs_file, fav_frames>>

FavNext ==
    \/ \E data \in FavItems : ShowCard(data)
    \/ \E data \in FavItems : toggle_fav_read(data)
    \/ \E i \in 1..MaxToggles : toggle_fav_write(i)
    \/ \E text \in FavQueries : fav_textChanged(text)
    \/ \E index \in {0, 1} : on_tab_change(index)

FavSpec == FavInit /\ [][FavNext]_vars

\* The timers of the event loop fire and the worker threads end; the user is
\* under no obligation to do anything.
FairSpec ==
    /\ Spec
    /\ WF_vars(FillTimeout)
    /\ WF_vars(ResizeTimeout)
    /\ \A i \in 1..MaxWorkers :
          WF_vars(results_ready(i) \/ WorkerRaises(i) \/ OrphanDestroyed(i))

\* ----------------------------------------------------------------- claims
\* The ImageCards among the widgets, in order.
IsCard(w) == w.type /= "label"
ItemCards(cards) == SelectSeq(cards, IsCard)

SessionWorkers == {i \in 1..Len(workers) : ~workers[i].stale}

\* C1: in every reachable state at most one page fetch of the current session
\* (a SearchWorker started since the latest search) is outstanding.
C1_OneFetchPerSession == Cardinality(SessionWorkers) <= 1

\* C2: the late result of a fetch started before the latest search changes
\* neither the item list, nor the cursor, nor the loading flag.
C2_StaleResultDiscarded ==
    [][(ev'.op = "display_results" /\ ev'.stale)
         => UNCHANGED <<search_card_widgets, next_ptr, is_loading>>]_vars

\* C3: check_scroll or fill_screen_if_needed run while loading is true or the
\* cursor is None issues no fetch and leaves query, cursor, loading flag and
\* item list as they were.
C3_RequestMoreNoOp ==
    [][(/\ ev'.op \in {"check_scroll", "fill_screen_if_needed"}
        /\ (is_loading \/ next_ptr = None))
         => /\ ~ev'.fetched
            /\ UNCHANGED <<current_query, current_source_name, next_ptr,
                           is_loading, search_card_widgets, workers>>]_vars

\* C3 witness: a scroll beyond the threshold, with a cursor at hand, was
\* ignored because a fetch is in flight.
C3_Witness ==
    /\ ev.op = "check_scroll" /\ ~ev.fetched
    /\ is_loading /\ Truthy(next_ptr) /\ workers /= <<>>
    /\ bar_value * 10 > BarMaximum(search_card_widgets, viewport) * 9

\* C4: once a page of the session came with next cursor None, no fetch is
\* issued before the next search.
C4_NoFetchAfterExhaustion == null_seen => ~ev.fetched

\* C5: every fetch carries None or a cursor that its own adapter returned for
\* its own query.
C5_CursorOfSameAdapter ==
    \A i \in 1..Len(workers) :
        \/ workers[i].pos = None
        \/ /\ workers[i].pos.by = workers[i].source
           /\ workers[i].pos.q = workers[i].query

\* C6: a page arrival appends the page's items at the end of the item list in
\* their order, replaces the cursor by the page's next cursor and clears the
\* loading flag, all in the one step.
C6_PageAppliedAtomically ==
    [][ev'.op = "display_results"
         => \E i \in 1..Len(workers) :
              \E o \in SourceSearch(workers[i].source, workers[i].query,
                                     workers[i].pos) :
                /\ ~o.raised
                /\ workers' = RemoveAt(workers, i)
                /\ ItemCards(search_card_widgets')
                     = ItemCards(search_card_widgets) \o o.results
                /\ SubSeq(search_card_widgets', 1, Len(search_card_widgets))
                     = search_card_widgets
                /\ next_ptr' = o.next_pos
                /\ is_loading' = FALSE]_vars

\* C6 witness: the second page of a session has arrived behind the item of
\* the first, with a cursor, and loading is cleared.
C6_Witness ==
    /\ ev.op = "display_results" /\ ~ev.stale
    /\ Len(ItemCards(search_card_widgets)) = 2
    /\ search_card_widgets[1] = search_card_widgets[2]
    /\ Truthy(next_ptr) /\ ~is_loading

\* C7: a search clears the item list, sets the cursor to None and loading to
\* true, and starts exactly one fetch, with the selected source, the new
\* query and cursor None.
C7_SearchStartsSession ==
    [][ev'.op = "search"
         => /\ search_card_widgets' = <<>>
            /\ next_ptr' = None
            /\ is_loading' = TRUE
            /\ Len(workers') = Len(workers) + 1
            /\ \A i \in 1..Len(workers) :
                  /\ workers'[i].source = workers[i].source
                  /\ workers'[i].query = workers[i].query
                  /\ workers'[i].pos = workers[i].pos
            /\ workers'[Len(workers')].source = current_source_name'
            /\ workers'[Len(workers')].query = current_query'
            /\ workers'[Len(workers')].pos = None
            /\ <<current_source_name', current_query'>> \in SearchInputs]_vars

\* C7 witness: a search issued over shown items, a cursor and a fetch in
\* flight has left an empty list, no cursor and its own fetch.
C7_Witness ==
    /\ ev.op = "search"
    /\ Len(workers) = 2
    /\ workers[1].pos /= None
    /\ workers[1].source /= current_source_name
    /\ search_card_widgets = <<>> /\ next_ptr = None /\ is_loading

\* C8: a page arrival that leaves a cursor while the scroll range is 0 is
\* followed by another fetch, whatever the page held, unless the viewport
\* fills, the cursor runs out or the process ends first.
C8_FillContinues ==
    [](( /\ ev.op = "display_results"
         /\ next_ptr /= None
         /\ BarMaximum(search_card_widgets, viewport) = 0)
        => <>(\/ ev.fetched
              \/ BarMaximum(search_card_widgets, viewport) > 0
              \/ next_ptr = None
              \/ ~running))

\* C9: a change of the scroll position starts a fetch exactly when the
\* position is at or above nine tenths of the maximum and the session is
\* neither loading nor exhausted.
C9_ScrollTriggerAtNineTenths ==
    [][ev'.op = "check_scroll"
         => (ev'.fetched <=>
               /\ bar_value' * 10
                    >= BarMaximum(search_card_widgets, viewport') * 9
               /\ ~is_loading
               /\ next_ptr /= None)]_vars


RECURSIVE SumLen(_, _)
SumLen(pages, k) == IF k = 0 THEN 0 ELSE SumLen(pages, k - 1) + Len(pages[k])

ChainUrls ==
    UNION {{chain.pages[k][i].url : i \in 1..Len(chain.pages[k])} :
              k \in 1..Len(chain.pages)}

\* C10: a cursor chain on EmojiSource.search gets None after finitely many
\* calls, no item comes back twice in the chain, and the catalog holds every
\* glyph once.
C10_EmojiChainEnds ==
    /\ [](/\ Cardinality(ChainUrls) = SumLen(chain.pages, Len(chain.pages))
          /\ Cardinality({all_emojis[i].url : i \in 1..Len(all_emojis)})
               = Len(all_emojis)
          /\ Len(chain.pages) <= Len(all_emojis) \div BATCH_SIZE + 1)
    /\ <>chain.done

\* C10 witness: a chain for a query that filters the catalog has ended after
\* more than two full pages.
C10_Witness ==
    /\ chain.done
    /\ chain.query /= <<>>
    /\ Len(chain.pages) > 2
    /\ Len(chain.pages[1]) = BATCH_SIZE /\ Len(chain.pages[2]) = BATCH_SIZE
    /\ SumLen(chain.pages, Len(chain.pages)) < Len(all_emojis)

\* The page the latest call of a chain returned.
LastPage(c) == c.pages[Len(c.pages)]

\* C12: for the empty query EmojiSource.search at offset k returns the catalog
\* entries k .. k+BATCH_SIZE-1 in catalog order with next cursor k+BATCH_SIZE,
\* or None when the page reaches the end of the catalog; a first page of a
\* chain that goes on is full and shares no item with the second.
C12_EmptyQueryPages ==
    /\ [][(chain.query = <<>> /\ chain' /= chain)
           => LET k == chain.pos.n
                  n == Len(all_emojis)
                  page == LastPage(chain')
              IN  /\ Len(page)
                       = (IF k >= n THEN 0
                          ELSE IF k + BATCH_SIZE > n THEN n - k ELSE BATCH_SIZE)
                  /\ \A i \in 1..Len(page) : page[i] = all_emojis[k + i]
                  /\ k + BATCH_SIZE < n
                       => /\ chain'.pos.kind = "int"
                          /\ chain'.pos.n = k + BATCH_SIZE
                  /\ k + BATCH_SIZE >= n => chain'.pos = None]_vars
    /\ []((chain.query = <<>> /\ Len(chain.pages) >= 2)
           => /\ Len(chain.pages[1]) = BATCH_SIZE
              /\ \A i \in 1..Len(chain.pages[1]) :
                    \A j \in 1..Len(chain.pages[2]) :
                       chain.pages[1][i].url /= chain.pages[2][j].url)

\* C12 witness: two calls with the empty query, the first without a cursor,
\* have returned the first 100 entries of the catalog.
C12_Witness ==
    /\ chain.query = <<>>
    /\ Len(chain.pages) = 2
    /\ chain.pages[1][1] = all_emojis[1]
    /\ chain.pages[2][BATCH_SIZE] = all_emojis[2 * BATCH_SIZE]
    /\ chain.pos.kind = "int" /\ chain.pos.n = 2 * BATCH_SIZE

\* name contains query, letters compared without regard to case.
ContainsIgnoringCase(name, query) ==
    \E k \in 0..(Len(name) - Len(query)) :
        \A j \in 1..Len(query) : Lower(name[k + j]) = Lower(query[j])

\* The catalog items a query selects, in catalog order.
Selected(query) ==
    LET Sel(item) == ContainsIgnoringCase(item.name, query) \/ item.url = query
    IN  SelectSeq(all_emojis, Sel)

\* C13: for a non-empty query EmojiSource.search pages over the catalog items
\* whose name contains the query case-insensitively or whose glyph is the
\* query, in catalog order, and the next cursor is None exactly when the
\* offset after the page reaches the length of that list, else that offset.
C13_FilteredPages ==
    [][(chain.query /= <<>> /\ chain' /= chain)
         => LET k == chain.pos.n
                list == Selected(chain.query)
                page == LastPage(chain')
                after == k + Len(page)
            IN  /\ page = SubSeq(list, k + 1, Min(k + BATCH_SIZE, Len(list)))
                /\ after >= Len(list) => chain'.pos = None
                /\ after < Len(list)
                     => /\ chain'.pos.kind = "int"
                        /\ chain'.pos.n = after]_vars

\* C13 witness: a query in upper case has been paged to the end of a list
\* that is shorter than the catalog, with a last page that is not full.
C13_Witness ==
    /\ chain.query = <<101>>
    /\ chain.done
    /\ Len(chain.pages) > 2
    /\ Len(LastPage(chain)) \in 1..(BATCH_SIZE - 1)
    /\ Len(Selected(chain.query)) < Len(all_emojis)

\* C11: a cursor chain on LocalSource.search gets None after finitely many
\* calls and never returns a file that an earlier page of the chain returned.
C11_LocalChainEnds ==
    /\ [](Cardinality(ChainUrls) = SumLen(chain.pages, Len(chain.pages)))
    /\ <>chain.done

\* The entries of a directory that are images and whose name contains the
\* query, letters compared without regard to case.
MatchingFiles(dir, query) ==
    {i \in 1..Len(dir.entries) :
        /\ \E suffix \in ImageSuffixes :
              LET f == dir.entries[i]
                  d == Len(f) - Len(suffix)
              IN  /\ d >= 0
                  /\ \A j \in 1..Len(suffix) : Lower(f[d + j]) = suffix[j]
        /\ (query = <<>> \/ ContainsIgnoringCase(dir.entries[i], query))}

\* C14: LocalSource.search returns next cursor None exactly when the offset
\* plus the number of returned items reaches the number of matching files,
\* else that sum; a first call on three matching files returns the three
\* with None.
C14_LocalExhaustion ==
    [][chain' /= chain
         => LET k == chain.pos.n
                page == LastPage(chain')
                total == Cardinality(MatchingFiles(chain.dir, chain.query))
            IN  /\ chain'.pos = None <=> k + Len(page) >= total
                /\ chain'.pos /= None
                     => /\ chain'.pos.kind = "int"
                        /\ chain'.pos.n = k + Len(page)
                /\ (total = 3 /\ chain.pos = None)
                     => Len(page) = 3 /\ chain'.pos = None]_vars

\* C14 witness: the first call on a directory of three images and a text
\* file has returned the three images and None.
C14_Witness ==
    /\ chain.done
    /\ chain.first = None /\ chain.query = <<>>
    /\ Len(chain.dir.entries) = 4
    /\ Len(chain.pages) = 1 /\ Len(chain.pages[1]) = 3

\* C15: TenorSource.search returns ([], None), and raises nothing, whenever
\* the request raises, the status is not 200, or an exception is raised while
\* the answer is processed.
C15_TenorSoftFailure ==
    (/\ call.fn = "Tenor" /\ call.done
     /\ \/ call.answer.raises
        \/ call.answer.status /= 200
        \/ call.answer.json = "invalid"
        \/ \E i \in 1..Len(call.answer.results) :
              call.answer.results[i].media = "no_url")
    => /\ ~call.ret.raised
       /\ call.ret.results = <<>>
       /\ call.ret.next_pos = None

\* C16: SevenTVSource.search takes the cursor for a page number counted from
\* 1 (None being page 1), returns page + 1 for every backend page that has
\* emote records, and returns None only for a backend page without emote
\* records.
C16_SevenTVPageCursor ==
    (call.fn = "7TV" /\ call.done)
    => LET page == IF call.pos = None THEN 1 ELSE call.pos.n
           answered == ~call.answer.raises /\ call.answer.status = 200
           records == call.answer.emotes /\ call.answer.items /= <<>>
       IN  /\ (answered /\ records)
                => /\ call.ret.next_pos.kind = "int"
                   /\ call.ret.next_pos.n = page + 1
           /\ call.ret.next_pos = None => (answered /\ ~records)

\* The cards whose media has been given a tmp_ file path.
Resolved == {i \in 1..Len(image_cards) : image_cards[i].local_path.kind = "tmp"}

\* C17: the same remote item materialized twice in one process run has the
\* same local file path both times: the path depends on url and type only.
C17_SamePathTwice ==
    \A i, j \in Resolved :
        (/\ image_cards[i].data.url = image_cards[j].data.url
         /\ image_cards[i].data.type = image_cards[j].data.type)
        => image_cards[i].local_path = image_cards[j].local_path

\* C17 witness: two cards of one item, the second downloaded when the file
\* of the first was there already.
C17_Witness ==
    /\ Len(image_cards) = 2
    /\ Resolved = {1, 2}
    /\ image_cards[1].data = image_cards[2].data
    /\ data_dir /= {}

Unfetched ==
    {i \in 1..Len(image_cards) :
        /\ "error" \notin DOMAIN image_cards[i].data
        /\ image_cards[i].data.type \in {"local", "emoji"}}

\* C19: a card of a local or emoji item never has a download worker and no
\* tmp_ file is written for it: the local item has its stored path at once,
\* the emoji shows its glyph; DATA_DIR changes only by a finished download of
\* another card.
C19_NoFetchForLocalAndEmoji ==
    /\ [](\A i \in Unfetched :
            /\ image_cards[i].worker = "none"
            /\ image_cards[i].http = ""
            /\ image_cards[i].local_path.kind /= "tmp"
            /\ image_cards[i].data.type = "local"
                 => image_cards[i].local_path = FilePath(image_cards[i].data.url)
            /\ image_cards[i].data.type = "emoji"
                 => image_cards[i].lbl = image_cards[i].data.url)
    /\ [][data_dir' \ data_dir /= {}
           => \E i \in 1..Len(image_cards) \ Unfetched :
                 /\ image_cards[i].worker = "running"
                 /\ image_cards'[i].http = "200"]_vars

\* C19 witness: a page with the card of a local file and the card of an
\* emoji.
C19_Witness ==
    /\ Cardinality(Unfetched) = 2
    /\ \E i, j \in Unfetched :
          /\ image_cards[i].data.type = "local"
          /\ image_cards[i].lbl = "movie"
          /\ image_cards[j].data.type = "emoji"
    /\ data_dir = {}

\* C20: when the download of a card fails, that card alone changes: it shows
\* the failed state and has no path, no file is written, and every other card
\* is as before.
C20_FailureStaysLocal ==
    [][\A i \in 1..Len(image_cards) :
          (image_cards[i].http = "" /\ image_cards'[i].http = "error")
          => /\ image_cards'[i].lbl = "X"
             /\ image_cards'[i].local_path = NoPath
             /\ data_dir' = data_dir
             /\ Len(image_cards') = Len(image_cards)
             /\ \A j \in 1..Len(image_cards) :
                   j /= i => image_cards'[j] = image_cards[j]]_vars

\* C20 witness: the first card has failed and the second, of another url,
\* was downloaded after that and shows its file.
C20_Witness ==
    /\ Len(image_cards) = 2
    /\ image_cards[1].http = "error" /\ image_cards[1].lbl = "X"
    /\ image_cards[2].http = "200" /\ image_cards[2].lbl = "movie"
    /\ image_cards[1].data.url /= image_cards[2].data.url
    /\ Cardinality(data_dir) = 1

\* C21: once the shutdown purge has run, DATA_DIR holds no tmp_ file, neither
\* one of this run nor one an earlier run left, whatever the downloads in
\* flight do afterwards.
C21_NoTmpAfterPurge == window /= "shown" => data_dir = {}

\* The cards whose download has ended with its bytes written to the tmp_
\* file of the card, the file being in DATA_DIR.
Cached ==
    {i \in 1..Len(image_cards) :
        /\ image_cards[i].http = "200"
        /\ \E f \in data_dir : /\ f.hash = image_cards[i].local_path.hash
                                /\ f.ext = image_cards[i].local_path.ext}

\* C28: when the media of a url has been fetched and written to its cache
\* file in this run, a card made afterwards for an item of the same url
\* starts no download: it has no running worker.
C28_NoSecondDownload ==
    [][\A j \in 1..Len(image_cards') :
          (/\ j > Len(image_cards)
           /\ \E i \in Cached : image_cards[i].data.url = image_cards'[j].data.url)
          => image_cards'[j].worker /= "running"]_vars

\* The results of a Tenor answer that have a rendition, in their order.
WithRendition(results) ==
    LET Has(r) == r.media \in {"both", "gif", "v1"}
    IN  SelectSeq(results, Has)

\* C29: TenorSource.search leaves out a result whose media object has no
\* tinygif and no gif rendition, and raises nothing: the page holds the other
\* results in their order and the cursor of the answer, which may be there
\* with fewer items than the backend sent, or with none.
C29_TenorOmitsGaps ==
    (/\ call.fn = "Tenor" /\ call.done
     /\ ~call.answer.raises
     /\ call.answer.status = 200
     /\ call.answer.json = "dict"
     /\ \A i \in 1..Len(call.answer.results) :
           call.answer.results[i].media /= "no_url")
    => LET kept == WithRendition(call.answer.results)
       IN  /\ ~call.ret.raised
           /\ Len(call.ret.results) = Len(kept)
           /\ \A i \in 1..Len(kept) :
                 /\ call.ret.results[i].url = TenorGifUrl(kept[i])
                 /\ call.ret.results[i].name =
                      (IF kept[i].desc /= "" THEN kept[i].desc ELSE "GIF")
           /\ call.ret.next_pos =
                 (IF call.answer.next = "" THEN None
                  ELSE StrCursor(call.answer.next, "Tenor", call.query))

\* C29 witness: an answer with a cursor whose first result has no rendition
\* and whose second has one: the page holds the second result alone.
C29_Witness ==
    /\ call.fn = "Tenor" /\ call.done
    /\ ~call.answer.raises /\ call.answer.status = 200
    /\ call.answer.json = "dict" /\ call.answer.next /= ""
    /\ Len(call.answer.results) = 2
    /\ call.answer.results[1].media \in {"neither", "v1_empty"}
    /\ call.answer.results[2].media = "both"
    /\ Len(call.ret.results) = 1
    /\ call.ret.results[1].url = "https://t/tiny.gif"
    /\ call.ret.next_pos /= None

\* C30: every page fetch that is started is followed by display_results,
\* which clears is_loading, whatever the search of the adapter does, a raised
\* exception included; the one excuse here is the process ending over a
\* thread that load_more left without a reference (C1).
C30_FetchDelivers ==
    [](is_loading
        => <>(\/ ev.op = "display_results" /\ ~is_loading
              \/ ev.op = "aborted"))

\* The step is the second part of a toggle_fav that ran to its end.
ToggleDone ==
    /\ Len(fav_frames') < Len(fav_frames)
    /\ fav_ui'.op = "toggle"
    /\ ~fav_ui'.uncaught

\* C22: from a favorites.json that is empty or holds no url twice, whatever
\* toggles are made of whatever items, the persisted list holds no url
\* twice; two toggles of one url never leave two entries of it.
C22_OneEntryPerUrl ==
    favs_file.kind = "list"
    => \A i, j \in 1..Len(favs_file.favs) :
          favs_file.favs[i].url = favs_file.favs[j].url => i = j

\* C22 witness: a url is stored under one name, and the toggle of a card
\* with the same url under another name has removed it: no entry of the url
\* is left, and the list still holds another one.
C22_Witness ==
    /\ fav_ui.op = "toggle" /\ ~fav_ui.uncaught /\ fav_frames = <<>>
    /\ fav_ui.before.kind = "list"
    /\ \E i \in 1..Len(fav_ui.before.favs) :
          /\ fav_ui.before.favs[i].url = fav_ui.data.url
          /\ fav_ui.before.favs[i].name /= fav_ui.data.name
    /\ ~HasUrl(favs_file.favs, fav_ui.data.url)
    /\ Len(favs_file.favs) = 2

\* C23: a toggle of x that follows a toggle of x leaves favorites.json with
\* the records it had before the first of the two, in the same order, whether
\* the url of x was stored then or not.
C23_ToggleTwice ==
    [][(/\ ToggleDone
        /\ fav_ui.op = "toggle" /\ ~fav_ui.uncaught
        /\ fav_ui.data = fav_ui'.data)
       => favs_file'.favs = ReadFavs(fav_ui.before).favs]_vars

ListingDone ==
    \/ fav_ui'.text /= fav_ui.text
    \/ tab = 0 /\ tab' = 1
    \/ tab = 1 /\ ToggleDone

\* The positions of the stored items whose name or url holds the filter,
\* letters compared without their case.
Matching(favs, text) ==
    {i \in 1..Len(favs) : \/ ContainsIgnoringCase(favs[i].name, text)
                           \/ ContainsIgnoringCase(favs[i].url, text)}

\* C25: the favourites listed with a filter are the stored items whose name
\* or url holds the filter, case ignored, in the order of the store; with an
\* empty filter they are all the stored items in that order.
C25_FilteredListing ==
    [][(ListingDone /\ favs_file'.kind = "list")
       => LET favs == favs_file'.favs
              listed == fav_ui'.listed
              hits == Matching(favs, fav_ui'.text)
          IN  /\ Len(listed) = Cardinality(hits)
              /\ \A n \in 1..Len(listed) :
                    \E i \in hits :
                       /\ listed[n] = favs[i]
                       /\ Cardinality({h \in hits : h < i}) = n - 1
              /\ fav_ui'.text = <<>> => listed = favs]_vars

\* C25 witness: the filter "A" on three stored items: the first has an "a" in
\* its url only, and in upper case, the second has none, the third has one in
\* its name; the first and the third are listed.
C25_Witness ==
    /\ fav_ui.op = "list" /\ fav_ui.text = <<101>>
    /\ favs_file.kind = "list" /\ Len(favs_file.favs) = 3
    /\ favs_file.favs[1].url = <<19, 47, 101>>
    /\ favs_file.favs[2].url = <<9731>>
    /\ fav_ui.listed = <<favs_file.favs[1], favs_file.favs[3]>>

\* C26: no two toggles interleave their read and write of favorites.json: at
\* most one toggle_fav is between its read and its write, and what it has
\* read is what the file holds, so its write loses no update.
C26_TogglesSerialized ==
    /\ Len(fav_frames) <= 1
    /\ \A i \in 1..Len(fav_frames) : fav_frames[i].favs = ReadFavs(favs_file)

\* C26 witness: a toggle has written the file, and the toggle of a card of
\* another item has read what the first one wrote.
C26_Witness ==
    /\ fav_ui.op = "toggle" /\ ~fav_ui.uncaught
    /\ Len(fav_frames) = 1
    /\ fav_frames[1].data.url /= fav_ui.data.url
    /\ favs_file /= fav_ui.before
    /\ HasUrl(fav_frames[1].favs.favs, fav_ui.data.url)

\* C27: with a favorites.json that is missing, unreadable or without the
\* expected content, is_favorited, toggle_fav and load_favorites do what they
\* do on an empty store and end without an exception nothing catches: the
\* star of a new card is off, nothing is listed, and a toggle stores the item
\* alone.
C27_BadFileIsEmptyStore ==
    [][favs_file.kind /= "list"
       => /\ ~fav_ui'.uncaught
          /\ fav_ui'.op = "card" => ~fav_ui'.star
          /\ (fav_ui'.text /= fav_ui.text \/ tab' /= tab) => fav_ui'.listed = <<>>
          /\ Len(fav_frames') < Len(fav_frames)
               => /\ favs_file' = FavsFile("list", <<fav_ui'.data>>)
                  /\ fav_ui'.star]_vars

\* C31: every card of a remote item leaves its pending state ("...") for one
\* terminal state, the media shown or the failure mark, and stays in it,
\* whatever the download ends with, a 200 answer with an empty body or with
\* bytes that are no image included; the one excuse here is the window being
\* closed first.
C31_CardSettles ==
    /\ \A i \in 1..MaxPageCards :
          []((i \in DOMAIN image_cards /\ image_cards[i].lbl = "...")
              => <>(\/ /\ i \in DOMAIN image_cards
                       /\ image_cards[i].lbl \in {"movie", "pixmap", "X"}
                    \/ window /= "shown"))
    /\ [][\A i \in DOMAIN image_cards :
             image_cards[i].lbl \in {"movie", "pixmap", "X"}
             => image_cards'[i].lbl = image_cards[i].lbl]_vars

\* C32: the purge deletes nothing but files that are in DATA_DIR itself and
\* whose name starts with tmp_: favorites.json, config.json, imports.json and
\* every file of local_images are left, whatever their names are, and so is
\* every directory and what it holds.
C32_PurgeFrame ==
    (call.fn = "purge" /\ call.done)
    => /\ call.ret \subseteq call.tree
       /\ \A e \in call.tree \ call.ret :
             /\ e.parent = ""
             /\ ~e.isdir
             /\ Len(e.name) >= 4
             /\ e.name[1] = 20 /\ e.name[2] = 13 /\ e.name[3] = 16
             /\ e.name[4] = 95
       /\ \A e \in call.tree :
             (\/ e.parent = "local_images"
              \/ EndsWith(e.name, <<46, 10, 19, 15, 14>>))
             => e \in call.ret

\* C32 witness: DATA_DIR held tmp_a.gif, the three json files and
\* local_images with tmp_c.png; the purge has deleted tmp_a.gif and nothing
\* else.
C32_Witness ==
    /\ call.fn = "purge" /\ call.done
    /\ call.tree \ call.ret = {DirEntry("", <<20, 13, 16, 95, 1, 46, 7, 9, 6>>, FALSE)}
    /\ DirEntry("local_images", <<20, 13, 16, 95, 3, 46, 16, 14, 7>>, FALSE) \in call.ret
    /\ Cardinality({e \in call.ret : EndsWith(e.name, <<46, 10, 19, 15, 14>>)}) = 3

====
